---- MODULE Spec2Model ----
(***************************************************************************)
(* Build-time resolution of runtime/globals.h.                             *)
(*                                                                         *)
(* One translation unit that includes globals.h is followed from the       *)
(* first line of the header to its last: the state is the set of macros    *)
(* defined at the current line, the constants declared so far, and the     *)
(* outcome of the compilation.  Every conditional block of the header is   *)
(* one action.  After a successful compilation the compiler backend calls  *)
(* CanDoImplicitNullCheckOn on offsets of the platform's pointer width.    *)
(***************************************************************************)
EXTENDS Integers, Sequences, FiniteSets, TLC

VARIABLES
  macros,      \* macros defined at the current line of the translation unit
  rbKind,      \* read-barrier kind the build configuration selected
  ptrSize,     \* sizeof(intptr_t) of the platform compiled for, in bytes
  pc,          \* the block of globals.h the compiler is about to process
  flags,       \* bool constants declared so far (name -> value)
  consts,      \* integer constants declared so far (name -> value)
  clock,       \* kDefaultTraceClockSource, "" while undeclared
  result,      \* "compiling", "ok" (object produced) or "error" (#error hit)
  diag,        \* text of the #error directive that stopped the build
  lastOffset,  \* argument of the latest CanDoImplicitNullCheckOn call
  lastAnswer   \* its return value

vars == <<macros, rbKind, ptrSize, pc, flags, consts, clock, result, diag,
          lastOffset, lastAnswer>>

----------------------------------------------------------------------------
(* Bounds of the model *)

\* radius of the windows of offsets taken around 0, the page size, the sign
\* bit of a 16-bit limb and the largest limb
MaxNear == 1

----------------------------------------------------------------------------
(* Inputs *)

\* macros the build system or the compiler may predefine (-D, __linux__)
CommandLineMacros ==
  {"ART_TARGET", "ART_TARGET_LINUX", "ART_TARGET_ANDROID", "NDEBUG",
   "USE_HEAP_POISONING", "ART_USE_TLAB", "ART_ENABLE_VDEX", "__linux__"}

ReadBarrierMacros ==
  {"USE_BAKER_READ_BARRIER", "USE_BROOKS_READ_BARRIER",
   "USE_TABLE_LOOKUP_READ_BARRIER"}

ReadBarrierKinds == {"none", "baker", "brooks", "tablelookup"}

PointerSizes == {4, 8}

EmptyFn == [n \in {} |-> TRUE]

----------------------------------------------------------------------------
(* Unsigned machine words.  A uintptr_t is a sequence of 16-bit limbs, most *)
(* significant first: two limbs on a 32-bit platform, four on a 64-bit one. *)

LimbBase == 2^16

Limbs(bytes) == bytes \div 2

\* conversion of a (32-bit, signed) int to an unsigned word of n limbs:
\* the value modulo 2^(16n), i.e. two's complement with sign extension
IntToUintptr(v, n) ==
  [i \in 1..n |->
     IF i = n THEN v % LimbBase
     ELSE IF i = n - 1 THEN (v \div LimbBase) % LimbBase
     ELSE IF v < 0 THEN LimbBase - 1 ELSE 0]

RECURSIVE ULessFrom(_, _, _)
ULessFrom(a, b, i) ==
  IF i > Len(a) THEN FALSE
  ELSE IF a[i] < b[i] THEN TRUE
  ELSE IF a[i] > b[i] THEN FALSE
  ELSE ULessFrom(a, b, i + 1)

\* a < b on unsigned words of the same width
ULess(a, b) == ULessFrom(a, b, 1)

\* a < b with both words read as signed (two's complement) values
SLess(a, b) ==
  LET na == a[1] >= LimbBase \div 2
      nb == b[1] >= LimbBase \div 2
  IN  IF na /= nb THEN na ELSE ULess(a, b)

----------------------------------------------------------------------------
(* Layout constants, globals.h lines 27-52 and 176 *)

KB == 1024
MB == KB * KB
GB == KB * KB * KB
kBitsPerByte == 8
kBitsPerByteLog2 == 3
kBitsPerIntPtrT(bytes) == bytes * kBitsPerByte
kStackAlignment == 16
kPageSize == 4096
kObjectAlignmentShift == 3

\* 1u << s on an unsigned int, for the shifts s < 31 that lose no bit
ShiftLeft1u(s) == 2^s

kObjectAlignment_shiftOnly == kObjectAlignmentShift

kObjectAlignment == ShiftLeft1u(kObjectAlignmentShift)

kLargeObjectAlignment == kPageSize
kHeapReferenceSize == 4

\* the comparison converts the int kPageSize to uintptr_t (usual arithmetic
\* conversions: uintptr_t has at least the rank of int) and is unsigned
CanDoImplicitNullCheckOn_signed(offset) ==
  SLess(offset, IntToUintptr(kPageSize, Len(offset)))

CanDoImplicitNullCheckOn(offset) ==
  ULess(offset, IntToUintptr(kPageSize, Len(offset)))

----------------------------------------------------------------------------
(* read_barrier_c.h, included at line 22: turns the selected read-barrier   *)
(* kind into at most one of the USE_*_READ_BARRIER macros.                  *)

ReadBarrierC(kind) ==
  CASE kind = "baker" -> {"USE_BAKER_READ_BARRIER"}
    [] kind = "brooks" -> {"USE_BROOKS_READ_BARRIER"}
    [] kind = "tablelookup" -> {"USE_TABLE_LOOKUP_READ_BARRIER"}
    [] OTHER -> {}

----------------------------------------------------------------------------
(* Conditional constants; m is the set of macros defined at that line *)

kIsDebugBuild(m) == IF "NDEBUG" \in m THEN FALSE ELSE TRUE

kIsTargetBuild(m) == IF "ART_TARGET" \in m THEN TRUE ELSE FALSE

\* the #error directive lines 67-86 reach, "" when they reach none
TargetError_hostUnchecked(m) ==
  IF "ART_TARGET" \in m
  THEN IF "ART_TARGET_LINUX" \in m THEN ""
       ELSE IF "ART_TARGET_ANDROID" \in m THEN ""
       ELSE "Either ART_TARGET_LINUX or ART_TARGET_ANDROID needs to be defined for target builds."
  ELSE ""

TargetError(m) ==
  IF "ART_TARGET" \in m
  THEN IF "ART_TARGET_LINUX" \in m THEN ""
       ELSE IF "ART_TARGET_ANDROID" \in m THEN ""
       ELSE "Either ART_TARGET_LINUX or ART_TARGET_ANDROID needs to be defined for target builds."
  ELSE IF "ART_TARGET_LINUX" \in m THEN "ART_TARGET_LINUX defined for host build."
       ELSE IF "ART_TARGET_ANDROID" \in m THEN "ART_TARGET_ANDROID defined for host build."
       ELSE ""

kIsTargetLinux_elifTrue(m) ==
  IF "ART_TARGET" \in m
  THEN IF "ART_TARGET_LINUX" \in m THEN TRUE
       ELSE TRUE
  ELSE FALSE

\* the value lines 67-86 give kIsTargetLinux where they reach no #error
kIsTargetLinux(m) ==
  IF "ART_TARGET" \in m
  THEN IF "ART_TARGET_LINUX" \in m THEN TRUE
       ELSE FALSE
  ELSE FALSE

kHostStaticBuildEnabled_always(m) == TRUE

kHostStaticBuildEnabled(m) == IF "ART_TARGET" \notin m THEN TRUE ELSE FALSE

kMovingCollector == TRUE
kMarkCompactSupport == FALSE /\ kMovingCollector

kMovingClasses_same == kMarkCompactSupport

kMovingClasses == ~kMarkCompactSupport

kEmbedClassInCode == TRUE

kUseBakerReadBarrier(m) ==
  IF "USE_BAKER_READ_BARRIER" \in m THEN TRUE ELSE FALSE

kUseBrooksReadBarrier_ifndef(m) ==
  IF "USE_BROOKS_READ_BARRIER" \notin m THEN TRUE ELSE FALSE

kUseBrooksReadBarrier(m) ==
  IF "USE_BROOKS_READ_BARRIER" \in m THEN TRUE ELSE FALSE

kUseTableLookupReadBarrier(m) ==
  IF "USE_TABLE_LOOKUP_READ_BARRIER" \in m THEN TRUE ELSE FALSE

kUseBakerOrBrooksReadBarrier(m) ==
  kUseBakerReadBarrier(m) \/ kUseBrooksReadBarrier(m)

kUseReadBarrier_noTable(m) ==
  kUseBakerReadBarrier(m) \/ kUseBrooksReadBarrier(m)

kUseReadBarrier(m) ==
  kUseBakerReadBarrier(m) \/ kUseBrooksReadBarrier(m)
    \/ kUseTableLookupReadBarrier(m)

kForceReadBarrier == FALSE

kEmitCompilerReadBarrier_forceOnly(m) == kForceReadBarrier

kEmitCompilerReadBarrier(m) == kForceReadBarrier \/ kUseReadBarrier(m)

kPoisonHeapReferences(m) == IF "USE_HEAP_POISONING" \in m THEN TRUE ELSE FALSE

kUseTlab(m) == IF "ART_USE_TLAB" \in m THEN TRUE ELSE FALSE

kDefaultTraceClockSource(m) == IF "__linux__" \in m THEN "kDual" ELSE "kWall"

kDefaultMustRelocate == FALSE
kArm32QuickCodeUseSoftFloat == FALSE

kIsVdexEnabled(m) == IF "ART_ENABLE_VDEX" \in m THEN TRUE ELSE FALSE

----------------------------------------------------------------------------
(* Offsets the compiler backend asks about *)

Near(c) == {x \in (c - MaxNear)..(c + MaxNear) : 0 <= x /\ x < LimbBase}

LowLimbs ==
  Near(0) \cup Near(kPageSize) \cup Near(LimbBase \div 2) \cup Near(LimbBase - 1)

HighLimbs == {0, 1, LimbBase - 1}

\* words of two limbs on a 32-bit platform, of four on a 64-bit one
Offsets(bytes) ==
  IF Limbs(bytes) = 2
  THEN {<<h1, lo>> : h1 \in HighLimbs, lo \in LowLimbs}
  ELSE {<<h3, h2, h1, lo>> : h3 \in HighLimbs, h2 \in HighLimbs,
                             h1 \in HighLimbs, lo \in LowLimbs}

----------------------------------------------------------------------------
(* The translation unit *)

TypeOK ==
  /\ macros \subseteq CommandLineMacros \cup ReadBarrierMacros
  /\ rbKind \in ReadBarrierKinds
  /\ ptrSize \in PointerSizes
  /\ pc \in {"include", "sizes", "debug", "target", "static", "gc",
             "barrier", "emit", "options", "end", "done"}
  /\ result \in {"compiling", "ok", "error"}
  /\ \A n \in DOMAIN flags : flags[n] \in BOOLEAN
  /\ \A n \in DOMAIN consts : consts[n] \in Nat
  /\ clock \in {"", "kDual", "kWall"}
  /\ lastAnswer \in BOOLEAN

Init ==
  /\ macros \in SUBSET CommandLineMacros
  /\ rbKind \in ReadBarrierKinds
  /\ ptrSize \in PointerSizes
  /\ pc = "include"
  /\ flags = EmptyFn
  /\ consts = EmptyFn
  /\ clock = ""
  /\ result = "compiling"
  /\ diag = ""
  /\ lastOffset = <<>>
  /\ lastAnswer = FALSE

\* lines 20-23: the includes
IncludeReadBarrierC ==
  /\ pc = "include"
  /\ macros' = macros \cup ReadBarrierC(rbKind)
  /\ pc' = "sizes"
  /\ UNCHANGED <<rbKind, ptrSize, flags, consts, clock, result, diag,
                 lastOffset, lastAnswer>>

\* lines 27-52
DefineSizes ==
  /\ pc = "sizes"
  /\ consts' = ("KB" :> KB) @@ ("MB" :> MB) @@ ("GB" :> GB)
                 @@ ("kBitsPerByte" :> kBitsPerByte)
                 @@ ("kBitsPerByteLog2" :> kBitsPerByteLog2)
                 @@ ("kBitsPerIntPtrT" :> kBitsPerIntPtrT(ptrSize))
                 @@ ("kStackAlignment" :> kStackAlignment)
                 @@ ("kPageSize" :> kPageSize)
                 @@ ("kObjectAlignmentShift" :> kObjectAlignmentShift)
                 @@ ("kObjectAlignment" :> kObjectAlignment)
                 @@ ("kLargeObjectAlignment" :> kLargeObjectAlignment)
                 @@ consts
  /\ pc' = "debug"
  /\ UNCHANGED <<macros, rbKind, ptrSize, flags, clock, result, diag,
                 lastOffset, lastAnswer>>

\* lines 55-59
DefineDebugBuild ==
  /\ pc = "debug"
  /\ flags' = ("kIsDebugBuild" :> kIsDebugBuild(macros)) @@ flags
  /\ pc' = "target"
  /\ UNCHANGED <<macros, rbKind, ptrSize, consts, clock, result, diag,
                 lastOffset, lastAnswer>>

\* lines 67-86: an #error ends the compilation and nothing is produced
DefineTarget ==
  /\ pc = "target"
  /\ IF TargetError(macros) /= ""
     THEN /\ result' = "error"
          /\ diag' = TargetError(macros)
          /\ flags' = EmptyFn
          /\ consts' = EmptyFn
          /\ pc' = "done"
     ELSE /\ flags' = ("kIsTargetBuild" :> kIsTargetBuild(macros))
                        @@ ("kIsTargetLinux" :> kIsTargetLinux(macros))
                        @@ flags
          /\ pc' = "static"
          /\ UNCHANGED <<consts, result, diag>>
  /\ UNCHANGED <<macros, rbKind, ptrSize, clock, lastOffset, lastAnswer>>

\* lines 90-94
DefineHostStaticBuild ==
  /\ pc = "static"
  /\ flags' = ("kHostStaticBuildEnabled" :> kHostStaticBuildEnabled(macros))
                @@ flags
  /\ pc' = "gc"
  /\ UNCHANGED <<macros, rbKind, ptrSize, consts, clock, result, diag,
                 lastOffset, lastAnswer>>

\* lines 97-104
DefineGcConstants ==
  /\ pc = "gc"
  /\ flags' = ("kMovingCollector" :> kMovingCollector)
                @@ ("kMarkCompactSupport" :> kMarkCompactSupport)
                @@ ("kMovingClasses" :> kMovingClasses)
                @@ ("kEmbedClassInCode" :> kEmbedClassInCode)
                @@ flags
  /\ pc' = "barrier"
  /\ UNCHANGED <<macros, rbKind, ptrSize, consts, clock, result, diag,
                 lastOffset, lastAnswer>>

\* lines 106-126
DefineReadBarrier ==
  /\ pc = "barrier"
  /\ flags' = ("kUseBakerReadBarrier" :> kUseBakerReadBarrier(macros))
                @@ ("kUseBrooksReadBarrier" :> kUseBrooksReadBarrier(macros))
                @@ ("kUseTableLookupReadBarrier" :>
                      kUseTableLookupReadBarrier(macros))
                @@ ("kUseBakerOrBrooksReadBarrier" :>
                      kUseBakerOrBrooksReadBarrier(macros))
                @@ ("kUseReadBarrier" :> kUseReadBarrier(macros))
                @@ flags
  /\ pc' = "emit"
  /\ UNCHANGED <<macros, rbKind, ptrSize, consts, clock, result, diag,
                 lastOffset, lastAnswer>>

\* lines 128-136
DefineEmitReadBarrier ==
  /\ pc = "emit"
  /\ flags' = ("kForceReadBarrier" :> kForceReadBarrier)
                @@ ("kEmitCompilerReadBarrier" :>
                      kEmitCompilerReadBarrier(macros))
                @@ flags
  /\ pc' = "options"
  /\ UNCHANGED <<macros, rbKind, ptrSize, consts, clock, result, diag,
                 lastOffset, lastAnswer>>

\* lines 138-176
DefineOptions ==
  /\ pc = "options"
  /\ flags' = ("kPoisonHeapReferences" :> kPoisonHeapReferences(macros))
                @@ ("kUseTlab" :> kUseTlab(macros))
                @@ ("kDefaultMustRelocate" :> kDefaultMustRelocate)
                @@ ("kArm32QuickCodeUseSoftFloat" :>
                      kArm32QuickCodeUseSoftFloat)
                @@ ("kIsVdexEnabled" :> kIsVdexEnabled(macros))
                @@ flags
  /\ clock' = kDefaultTraceClockSource(macros)
  /\ consts' = ("kHeapReferenceSize" :> kHeapReferenceSize) @@ consts
  /\ pc' = "end"
  /\ UNCHANGED <<macros, rbKind, ptrSize, result, diag, lastOffset,
                 lastAnswer>>

\* lines 178-180: the header ends without an #error, its constants are
\* what the consumers of this build read
Finish ==
  /\ pc = "end"
  /\ result' = "ok"
  /\ pc' = "done"
  /\ UNCHANGED <<macros, rbKind, ptrSize, flags, consts, clock, diag,
                 lastOffset, lastAnswer>>

\* a consumer of the built runtime calls CanDoImplicitNullCheckOn, line 45;
\* the function is pure, so one call per behaviour is followed
NullCheckQuery ==
  /\ result = "ok"
  /\ lastOffset = <<>>
  /\ \E offset \in Offsets(ptrSize) :
       /\ lastOffset' = offset
       /\ lastAnswer' = CanDoImplicitNullCheckOn(offset)
  /\ UNCHANGED <<macros, rbKind, ptrSize, pc, flags, consts, clock, result,
                 diag>>

Resolve ==
  \/ DefineSizes
  \/ DefineDebugBuild
  \/ DefineTarget
  \/ DefineHostStaticBuild
  \/ DefineGcConstants
  \/ DefineReadBarrier
  \/ DefineEmitReadBarrier
  \/ DefineOptions
  \/ Finish

Next ==
  \/ IncludeReadBarrierC
  \/ Resolve
  \/ NullCheckQuery

Spec == Init /\ [][Next]_vars

(* The header as a function of the macros alone: every subset of the        *)
(* macros it tests is defined when line 24 is reached.                      *)
InitMacros ==
  /\ macros \in SUBSET (CommandLineMacros \cup ReadBarrierMacros)
  /\ rbKind = "none"
  /\ ptrSize \in PointerSizes
  /\ pc = "sizes"
  /\ flags = EmptyFn
  /\ consts = EmptyFn
  /\ clock = ""
  /\ result = "compiling"
  /\ diag = ""
  /\ lastOffset = <<>>
  /\ lastAnswer = FALSE

NextMacros == Resolve

SpecMacros == InitMacros /\ [][NextMacros]_vars

----------------------------------------------------------------------------
(* Properties *)

Max16 == LimbBase - 1

\* the unsigned value of the word is below 4096
Below4096(o) ==
  /\ \A i \in 1..(Len(o) - 1) : o[i] = 0
  /\ o[Len(o)] < 4096

IsPowerOfTwo(n) == \E k \in 0..30 : n = 2^k

TargetAccepted == {"kIsTargetBuild", "kIsTargetLinux"} \subseteq DOMAIN flags

\* C1: a device build with both ART_TARGET_LINUX and ART_TARGET_ANDROID set
\* ends in a fatal configuration error and produces no platform identity.
C1_BothSubFlagsFatal ==
  (/\ pc = "done"
   /\ {"ART_TARGET", "ART_TARGET_LINUX", "ART_TARGET_ANDROID"} \subseteq macros)
  => (/\ result = "error"
      /\ "kIsTargetBuild" \notin DOMAIN flags
      /\ "kIsTargetLinux" \notin DOMAIN flags)

RejectedCase ==
  \/ /\ "ART_TARGET" \in macros
     /\ "ART_TARGET_LINUX" \notin macros
     /\ "ART_TARGET_ANDROID" \notin macros
  \/ /\ "ART_TARGET" \notin macros
     /\ ("ART_TARGET_LINUX" \in macros \/ "ART_TARGET_ANDROID" \in macros)

\* C2: a device build with neither sub-flag, and a host build with
\* ART_TARGET_LINUX or ART_TARGET_ANDROID set, never resolve a platform
\* identity and end in a fatal error with a diagnostic and nothing produced.
C2_NeitherOrHostSubFlagFatal ==
  RejectedCase =>
    /\ result /= "ok"
    /\ ~TargetAccepted
    /\ pc = "done" => (/\ result = "error"
                       /\ diag /= ""
                       /\ DOMAIN flags = {}
                       /\ DOMAIN consts = {})

C2_Witness ==
  /\ result = "error"
  /\ "ART_TARGET" \notin macros
  /\ "ART_TARGET_ANDROID" \in macros
  /\ "ART_TARGET_LINUX" \notin macros

\* C3: once the target block is accepted exactly one of the identities
\* (device, linux), (device, not linux), (host) holds; kIsTargetLinux implies
\* kIsTargetBuild, is true iff ART_TARGET_LINUX is set, and is false on
\* every host build.
C3_OnePlatformIdentity ==
  TargetAccepted =>
    LET b == flags["kIsTargetBuild"]
        l == flags["kIsTargetLinux"]
    IN  /\ Cardinality({i \in 1..3 : \/ i = 1 /\ b /\ l
                                     \/ i = 2 /\ b /\ ~l
                                     \/ i = 3 /\ ~b}) = 1
        /\ l => b
        /\ l <=> ("ART_TARGET_LINUX" \in macros)
        /\ ~b => ~l
        /\ b <=> ("ART_TARGET" \in macros)

C3_Witness ==
  /\ result = "ok"
  /\ "ART_TARGET_ANDROID" \in macros
  /\ "ART_TARGET_LINUX" \notin macros
  /\ flags["kIsTargetBuild"]
  /\ ~flags["kIsTargetLinux"]

\* C4: for every combination of the three read-barrier macros and of all
\* other macros, kUseReadBarrier is true iff at least one of the three is
\* defined.
C4_UseReadBarrierIsOr ==
  "kUseReadBarrier" \in DOMAIN flags =>
    (flags["kUseReadBarrier"] <=> (macros \cap ReadBarrierMacros /= {}))

C4_Witness ==
  /\ result = "ok"
  /\ macros \cap ReadBarrierMacros = {"USE_TABLE_LOOKUP_READ_BARRIER"}
  /\ flags["kUseReadBarrier"]

C7_NullCheckBelowPageSize ==
  lastOffset /= <<>> =>
    /\ lastAnswer <=> Below4096(lastOffset)
    /\ (\A i \in 1..Len(lastOffset) : lastOffset[i] = Max16) => ~lastAnswer

C7_Witness ==
  /\ lastOffset = <<Max16, Max16, Max16, Max16>>
  /\ lastAnswer = FALSE

\* C8: in every accepted configuration kHostStaticBuildEnabled is true iff
\* kIsTargetBuild is false, whatever the other macros.
C8_HostStaticIffHost ==
  "kHostStaticBuildEnabled" \in DOMAIN flags =>
    /\ flags["kHostStaticBuildEnabled"] <=> ~flags["kIsTargetBuild"]
    /\ flags["kHostStaticBuildEnabled"] <=> ("ART_TARGET" \notin macros)

C8_Witness ==
  /\ result = "ok"
  /\ flags["kIsTargetBuild"]
  /\ ~flags["kHostStaticBuildEnabled"]
  /\ {"NDEBUG", "ART_USE_TLAB"} \subseteq macros

\* C9: kMarkCompactSupport implies kMovingCollector, kMovingClasses is true
\* iff kMarkCompactSupport is false, and the values are true, false, true
\* for every combination of macros.
C9_GcPolicy ==
  "kMovingClasses" \in DOMAIN flags =>
    /\ flags["kMarkCompactSupport"] => flags["kMovingCollector"]
    /\ flags["kMovingClasses"] <=> ~flags["kMarkCompactSupport"]
    /\ flags["kMovingCollector"] = TRUE
    /\ flags["kMarkCompactSupport"] = FALSE
    /\ flags["kMovingClasses"] = TRUE

C9_Witness ==
  /\ result = "ok"
  /\ flags["kMovingClasses"]
  /\ ~flags["kMarkCompactSupport"]
  /\ "USE_HEAP_POISONING" \in macros
  /\ rbKind = "tablelookup"

\* C10: whatever the macros, kObjectAlignment = 2^kObjectAlignmentShift = 8,
\* a power of two, kLargeObjectAlignment = kPageSize = 4096, and
\* kLargeObjectAlignment is a multiple of kObjectAlignment.
C10_LayoutConstants ==
  "kLargeObjectAlignment" \in DOMAIN consts =>
    /\ consts["kObjectAlignment"] = 2^consts["kObjectAlignmentShift"]
    /\ consts["kObjectAlignment"] = 8
    /\ IsPowerOfTwo(consts["kObjectAlignment"])
    /\ consts["kLargeObjectAlignment"] = consts["kPageSize"]
    /\ consts["kLargeObjectAlignment"] = 4096
    /\ consts["kLargeObjectAlignment"] % consts["kObjectAlignment"] = 0

C10_Witness ==
  /\ result = "ok"
  /\ consts["kObjectAlignment"] = 8
  /\ consts["kLargeObjectAlignment"] = 4096
  /\ "ART_ENABLE_VDEX" \in macros
  /\ ptrSize = 4

====
